---- MODULE Spec2Model ----
(***************************************************************************)
(* Model of packages/node-opentelemetry/src/otel.ts: the version gate      *)
(* isSupported, the start-up and repatch pass of initSDK, the termination  *)
(* signal handling around _shutdown, and setTraceAttributes.               *)
(***************************************************************************)
EXTENDS Naturals, Sequences, FiniteSets, TLC

VARIABLES
  pc,              \* position of initSDK: idle, skipped, constructed, started, repatch, repatched, done, aborted
  config,          \* the SDKConfig initSDK was called with (the fields the model reads)
  contextManager,  \* module-level `contextManager`: "undefined" or "manager"
  sdk,             \* module-level `sdk`: "undefined" or "created" or "started"
  enabled,         \* per instrumentation: the _enabled flag of InstrumentationBase
  moduleExports,   \* per module definition: module.moduleExports
  moduleVersion,   \* per module definition: module.moduleVersion
  fileExports,     \* per file definition: file.moduleExports
  cursor,          \* repatch pass: <<index into allInstrumentations, index into its modules>>
  log,             \* history: the calls made on instrumentations and the module loader
  handlers,        \* TRUE when the SIGTERM/SIGINT listeners are registered
  otelEnvs,        \* TRUE once setOtelEnvs has written the OTEL_* environment variables
  caller,          \* history: the config init() was called with, or NoCaller
  calls,           \* the _shutdown() invocations made so far, each with its promise chain
  exited,          \* TRUE once process.exit() has been called
  isArgs,          \* isSupported: the arguments of the last call
  isResult,        \* isSupported: the value the last call returned
  current,         \* the context active for the running task, or NoContext
  mutableContext,  \* per context: whether traceAttributes exists, and its entries
  lastWrite,       \* history: per context and key, the value of the last call that supplied the key
  lastCall         \* history: what the last setTraceAttributes call did: "none", "noop" or "wrote"

vars == <<pc, config, contextManager, sdk, enabled, moduleExports, moduleVersion,
          fileExports, cursor, log, handlers, otelEnvs, caller, calls, exited,
          isArgs, isResult, current, mutableContext, lastWrite, lastCall>>

sdkVars     == <<pc, config, contextManager, sdk, enabled, moduleExports, moduleVersion,
                 fileExports, cursor, log, handlers, otelEnvs, caller>>
signalVars  == <<calls, exited>>
pureVars    == <<isArgs, isResult>>
contextVars == <<current, mutableContext, lastWrite, lastCall>>

Undefined == "undefined"
Null      == "null"

-----------------------------------------------------------------------------
(* Bounds of the model *)

MaxRanges    == 2   \* longest supportedVersions array handed to isSupported
MaxSignals   == 2   \* termination signals (and shutdown() calls) delivered in one run
NumContexts  == 2   \* contexts the context manager can make active
MaxValue     == 2   \* attribute values are 1..MaxValue

-----------------------------------------------------------------------------
(* semver, as far as isSupported uses it (otel.ts line 100).  A version is  *)
(* major.minor.patch with an optional prerelease tag; pre = 0 is a release, *)
(* and among prereleases a larger pre has higher precedence ("0" < "beta"). *)

Versions == {"1.9.0", "2.0.0", "2.3.1", "2.3.1-beta", "3.0.0-beta", "3.0.0"}

Ranges == {"*", "x", "^1.0.0", "^2.0.0", "^3.0.0"}

ParseVersion(v) ==
  CASE v = "1.9.0"      -> [major |-> 1, minor |-> 9, patch |-> 0, pre |-> 0]
    [] v = "2.0.0"      -> [major |-> 2, minor |-> 0, patch |-> 0, pre |-> 0]
    [] v = "2.3.1"      -> [major |-> 2, minor |-> 3, patch |-> 1, pre |-> 0]
    [] v = "2.3.1-beta" -> [major |-> 2, minor |-> 3, patch |-> 1, pre |-> 2]
    [] v = "3.0.0-beta" -> [major |-> 3, minor |-> 0, patch |-> 0, pre |-> 2]
    [] v = "3.0.0"      -> [major |-> 3, minor |-> 0, patch |-> 0, pre |-> 0]

\* "*" and "x" are the comparator that matches any version; "^M.0.0" is
\* >=M.0.0 <(M+1).0.0-0.
ParseRange(r) ==
  CASE r = "*"      -> [any |-> TRUE,
                        lo |-> [major |-> 0, minor |-> 0, patch |-> 0, pre |-> 0],
                        hi |-> [major |-> 0, minor |-> 0, patch |-> 0, pre |-> 0]]
    [] r = "x"      -> [any |-> TRUE,
                        lo |-> [major |-> 0, minor |-> 0, patch |-> 0, pre |-> 0],
                        hi |-> [major |-> 0, minor |-> 0, patch |-> 0, pre |-> 0]]
    [] r = "^1.0.0" -> [any |-> FALSE,
                        lo |-> [major |-> 1, minor |-> 0, patch |-> 0, pre |-> 0],
                        hi |-> [major |-> 2, minor |-> 0, patch |-> 0, pre |-> 1]]
    [] r = "^2.0.0" -> [any |-> FALSE,
                        lo |-> [major |-> 2, minor |-> 0, patch |-> 0, pre |-> 0],
                        hi |-> [major |-> 3, minor |-> 0, patch |-> 0, pre |-> 1]]
    [] r = "^3.0.0" -> [any |-> FALSE,
                        lo |-> [major |-> 3, minor |-> 0, patch |-> 0, pre |-> 0],
                        hi |-> [major |-> 4, minor |-> 0, patch |-> 0, pre |-> 1]]

SameTuple(a, b) == a.major = b.major /\ a.minor = b.minor /\ a.patch = b.patch

\* semver precedence: the tuple first; a release is above every prerelease
\* of the same tuple.
VersionLt(a, b) ==
  \/ a.major < b.major
  \/ a.major = b.major /\ a.minor < b.minor
  \/ a.major = b.major /\ a.minor = b.minor /\ a.patch < b.patch
  \/ SameTuple(a, b) /\ a.pre # 0 /\ (b.pre = 0 \/ a.pre < b.pre)

\* semver.satisfies(version, range, { includePrerelease }): the version lies
\* in the range, and a prerelease version is admitted only with
\* includePrerelease or by a comparator that carries a prerelease of the
\* same tuple.  includePrerelease is "true", "false" or "undefined" (falsy).
satisfies(version, range, includePrerelease) ==
  LET v == ParseVersion(version)
      r == ParseRange(range)
      admitted == \/ v.pre = 0
                  \/ includePrerelease = "true"
                  \/ ~r.any /\ \E c \in {r.lo, r.hi} : c.pre # 0 /\ SameTuple(c, v)
  IN  IF r.any
        THEN admitted
        ELSE ~VersionLt(v, r.lo) /\ VersionLt(v, r.hi) /\ admitted

\* Array.prototype.includes
RECURSIVE includes(_, _)
includes(arr, x) ==
  IF arr = <<>> THEN FALSE
  ELSE IF Head(arr) = x THEN TRUE
  ELSE includes(Tail(arr), x)

\* supportedVersions.some(sv => semver.satisfies(version, sv, {includePrerelease}))
RECURSIVE someSatisfies(_, _, _)
someSatisfies(arr, version, includePrerelease) ==
  IF arr = <<>> THEN FALSE
  ELSE IF satisfies(version, Head(arr), includePrerelease) THEN TRUE
  ELSE someSatisfies(Tail(arr), version, includePrerelease)

\* a plausible slip: an unknown version is accepted whenever any range is
\* a wildcard for semver ("x" as well as "*")
isSupportedAnyWildcard(supportedVersions, version, includePrerelease) ==
  IF version = Undefined
    THEN \E i \in 1..Len(supportedVersions) : ParseRange(supportedVersions[i]).any
    ELSE someSatisfies(supportedVersions, version, includePrerelease)

isSupported(supportedVersions, version, includePrerelease) ==
  IF version = Undefined
    THEN includes(supportedVersions, "*")
    ELSE someSatisfies(supportedVersions, version, includePrerelease)

-----------------------------------------------------------------------------
(* The instrumentations initSDK builds (allInstrumentations, lines 253-291) *)
(* and their module definitions (_modules, module.files).  "C" stands for   *)
(* an instrumentation without a module list.                                *)

allInstrumentations == <<"A", "B", "C">>

\* Array.isArray((instrumentation as any)._modules)
\* a pass that takes every instrumentation to have a module list
HasModuleListAlways(inst) == TRUE

HasModuleList(inst) == inst \in {"A", "B"}

modulesOf(inst) ==
  CASE inst = "A" -> <<"a1", "a2">>
    [] inst = "B" -> <<"b1">>
    [] OTHER      -> <<>>

ModuleNames == {"a1", "a2", "b1"}

\* module.files ?? []
filesOf(m) ==
  CASE m = "a1" -> <<"a1/f">>
    [] m = "b1" -> <<"b1/f">>
    [] OTHER    -> <<>>

FileNames == {"a1/f", "b1/f"}

\* typeof module.patch === 'function'
hasPatch(m) == m \in {"a1", "a2"}

\* module.supportedVersions and file.supportedVersions
supportedVersions(t) ==
  CASE t = "a1"   -> <<"^1.0.0">>
    [] t = "a1/f" -> <<"^2.0.0">>
    [] t = "a2"   -> <<"*">>
    [] t = "b1"   -> <<"^1.0.0", "^2.0.0">>
    [] t = "b1/f" -> <<"*", "^2.0.0">>

\* module.includePrerelease
includePrerelease(m) == Undefined

\* the versions the package.json of a loaded module can declare
PkgVersions == {"1.9.0", "2.3.1"}

Event(op, inst, target, phase, ok) ==
  [op |-> op, inst |-> inst, target |-> target, phase |-> phase, ok |-> ok]

InstOf(m) == IF m \in {"a1", "a2"} THEN "A" ELSE "B"

\* the events of one kind in the log
Events(op, phase) == {i \in 1..Len(log) : log[i].op = op /\ log[i].phase = phase}

PatchCount(target, phase) ==
  Cardinality({i \in Events("patch", phase) : log[i].target = target})

-----------------------------------------------------------------------------
(* initSDK, lines 142-374: the API key check, the context manager, the      *)
(* instrumentations and the NodeSDK object.                                 *)

NoConfig == [apiKey |-> FALSE, programmaticImports |-> FALSE,
             stopOnTerminationSignals |-> FALSE, asyncLocalStorage |-> FALSE]

Configs == [apiKey : BOOLEAN, programmaticImports : BOOLEAN,
            stopOnTerminationSignals : BOOLEAN, asyncLocalStorage : BOOLEAN]

\* no call of init() has been made
NoCaller == [apiKey |-> FALSE, programmaticImports |-> "absent"]

InitSdkVars ==
  /\ pc = "idle"
  /\ config = NoConfig
  /\ contextManager = Undefined
  /\ sdk = Undefined
  /\ enabled = [i \in {"A", "B", "C"} |-> FALSE]
  /\ moduleExports = [m \in ModuleNames |-> Undefined]
  /\ moduleVersion = [m \in ModuleNames |-> Undefined]
  /\ fileExports = [f \in FileNames |-> Undefined]
  /\ cursor = <<0, 0>>
  /\ log = <<>>
  /\ handlers = FALSE
  /\ otelEnvs = FALSE
  /\ caller = NoCaller

\* lines 158-167: without an API key initSDK warns and returns
returnsBeforeSetupNever(c) == FALSE

returnsBeforeSetup(c) == ~c.apiKey

\* config.apiKey ?? env.HYPERDX_API_KEY, or OTEL_EXPORTER_OTLP_HEADERS, is
\* what c.apiKey stands for; c.asyncLocalStorage is
\* semver.gte(process.version, '14.8.0').
\* setOtelEnvs (line 170) runs after the API key check.
initSDKCall(c) ==
  /\ pc = "idle"
  /\ config' = c
  /\ IF returnsBeforeSetup(c)
       THEN /\ pc' = "skipped"
            /\ UNCHANGED <<contextManager, sdk, enabled, otelEnvs>>
       ELSE /\ pc' = "constructed"
            /\ otelEnvs' = TRUE
            /\ contextManager' = IF c.asyncLocalStorage THEN "manager" ELSE Undefined
            /\ sdk' = "created"
            /\ enabled' = [i \in DOMAIN enabled |-> TRUE]
  /\ UNCHANGED <<moduleExports, moduleVersion, fileExports, cursor, log, handlers>>
  /\ UNCHANGED <<signalVars, pureVars, contextVars>>

\* initSDK called by the application itself
initSDK(c) == initSDKCall(c) /\ UNCHANGED caller

\* the configs init() is called with: programmaticImports is no field of the
\* declared parameter type, but a caller can still supply it (as a value or
\* as an own property holding undefined)
CallerConfigs == [apiKey : BOOLEAN,
                  programmaticImports : {"absent", "undefined", "true", "false"}]

\* an object literal that spreads the caller's config before its defaults
initConfigDefaultsLast(c) ==
  [apiKey |-> c.apiKey, programmaticImports |-> TRUE,
   stopOnTerminationSignals |-> TRUE, asyncLocalStorage |-> TRUE]

\* lines 597-603: { ..., programmaticImports: true, ...config }: a property
\* of the caller's config replaces the default written before the spread
initConfig(c) ==
  [apiKey |-> c.apiKey,
   programmaticImports |-> IF c.programmaticImports = "absent" THEN TRUE
                           ELSE c.programmaticImports = "true",
   stopOnTerminationSignals |-> TRUE, asyncLocalStorage |-> TRUE]

\* init, lines 596-603
init(c) == initSDKCall(initConfig(c)) /\ caller' = c

-----------------------------------------------------------------------------
(* sdk.start(), line 378: the instrumentations are enabled, and a module    *)
(* the process loads while their require hooks are in place is patched by   *)
(* the hook (the library routine the comments of lines 88 and 418 cite):    *)
(* the hook records the version, and for a supported version binds the      *)
(* exports and calls patch, for the module and for its supported files.     *)

\* the version a module loaded during start-up declares
StartupVersions == {"1.9.0"}

StartupLoads == [ModuleNames -> {"none"} \cup StartupVersions]

hookSupported(t, m, v) == isSupported(supportedVersions(t), v, includePrerelease(m))

hookPatchesModule(m, v) == v # "none" /\ hasPatch(m) /\ hookSupported(m, m, v)

hookPatchesFile(f, m, v) == v # "none" /\ hookSupported(f, m, v)

RECURSIVE hookFileEvents(_, _, _)
hookFileEvents(files, m, v) ==
  IF files = <<>> THEN <<>>
  ELSE (IF hookPatchesFile(Head(files), m, v)
          THEN <<Event("patch", InstOf(m), Head(files), "startup", TRUE)>>
          ELSE <<>>)
       \o hookFileEvents(Tail(files), m, v)

hookModuleEvents(m, v) ==
  (IF hookPatchesModule(m, v)
     THEN <<Event("patch", InstOf(m), m, "startup", TRUE)>>
     ELSE <<>>)
  \o hookFileEvents(filesOf(m), m, v)

RECURSIVE hookEvents(_, _)
hookEvents(ms, loads) ==
  IF ms = <<>> THEN <<>>
  ELSE hookModuleEvents(Head(ms), loads[Head(ms)]) \o hookEvents(Tail(ms), loads)

ModuleOf(f) == IF f = "a1/f" THEN "a1" ELSE "b1"

\* a pass that begins at the first module and leaves out the disable call
passStartAtFirstModule == <<1, 1>>

\* line 385: the pass begins at the first instrumentation, before its disable()
passStart == <<1, 0>>

SdkStart ==
  /\ pc = "constructed"
  /\ sdk' = "started"
  /\ \E loads \in StartupLoads :
       /\ moduleVersion' = [m \in ModuleNames |->
                              IF loads[m] = "none" THEN moduleVersion[m] ELSE loads[m]]
       /\ moduleExports' = [m \in ModuleNames |->
                              IF hookPatchesModule(m, loads[m]) THEN "exports"
                              ELSE moduleExports[m]]
       /\ fileExports' = [f \in FileNames |->
                            IF hookPatchesFile(f, ModuleOf(f), loads[ModuleOf(f)])
                              THEN "exports" ELSE fileExports[f]]
       /\ log' = log \o hookEvents(<<"a1", "a2", "b1">>, loads)
  /\ IF config.programmaticImports
       THEN pc' = "repatch" /\ cursor' = passStart
       ELSE pc' = "repatched" /\ UNCHANGED cursor
  /\ UNCHANGED <<config, contextManager, enabled, handlers, otelEnvs, caller>>
  /\ UNCHANGED <<signalVars, pureVars, contextVars>>

-----------------------------------------------------------------------------
(* The repatch pass of initSDK, lines 382-492.                              *)

\* the position after the instrumentation at index i has been disabled
afterDisable(i) ==
  IF Len(modulesOf(allInstrumentations[i])) >= 1 THEN <<i, 1>> ELSE <<i + 1, 0>>

\* the position after module j of instrumentation i
afterModule(i, j) ==
  IF j < Len(modulesOf(allInstrumentations[i])) THEN <<i, j + 1>> ELSE <<i + 1, 0>>

pcAt(pos) == IF pos[1] > Len(allInstrumentations) THEN "repatched" ELSE "repatch"

\* lines 385-390: instrumentation.disable() is called outside any try
\* block, so an exception of an unpatch function leaves initSDK.
disableOutcome(throws) == IF throws THEN "aborted" ELSE "repatch"

\* the pass calls enable() once the modules of the instrumentation are patched
enabledAfterDisableAndEnable(inst) == [enabled EXCEPT ![inst] = TRUE]

\* line 390 is the only call the pass makes on the instrumentation itself:
\* disable() clears _enabled, and no enable() follows
enabledAfterDisable(inst) == [enabled EXCEPT ![inst] = FALSE]

RepatchInstrumentation ==
  /\ pc = "repatch"
  /\ cursor[2] = 0
  /\ LET i    == cursor[1]
         inst == allInstrumentations[i]
     IN  IF ~HasModuleList(inst)
           THEN /\ cursor' = <<i + 1, 0>>
                /\ pc' = pcAt(cursor')
                /\ UNCHANGED <<enabled, log>>
           ELSE \E throws \in BOOLEAN :
                  /\ enabled' = enabledAfterDisable(inst)
                  /\ log' = Append(log, Event("disable", inst, inst, "repatch", ~throws))
                  /\ IF disableOutcome(throws) = "aborted"
                       THEN pc' = "aborted" /\ UNCHANGED cursor
                       ELSE cursor' = afterDisable(i) /\ pc' = pcAt(cursor')
  /\ UNCHANGED <<config, contextManager, sdk, moduleExports, moduleVersion,
                 fileExports, handlers, otelEnvs, caller>>
  /\ UNCHANGED <<signalVars, pureVars, contextVars>>

\* getModuleId(module.name), lines 79-86 and 394: require.resolve either
\* gives the module id or throws, and the throw becomes null.
getModuleId(resolves) == IF resolves THEN "id" ELSE Null

\* lines 395-405: module.moduleExports after re-requiring the module
exportsAfterRequire(m, requireOk) ==
  IF requireOk THEN "exports" ELSE moduleExports[m]

\* a version that is cleared when package.json cannot be read
versionAfterPackageJsonCleared(m, pkg) ==
  IF pkg # "fail" THEN pkg ELSE Undefined

\* lines 406-416: module.moduleVersion after re-requiring package.json; the
\* catch block only logs
versionAfterPackageJson(m, pkg) ==
  IF pkg # "fail" THEN pkg ELSE moduleVersion[m]

\* a gate that forgets the version check
shouldPatchModuleAnyVersion(m, ex, ver) ==
  hasPatch(m) /\ ex # Undefined

\* lines 419-427: the condition under which module.patch is called
shouldPatchModule(m, ex, ver) ==
  /\ isSupported(supportedVersions(m), ver, includePrerelease(m))
  /\ hasPatch(m)
  /\ ex # Undefined

\* a filter that lets a file through only when the module itself is supported
supportedFileInstrumentationsGatedByModule(m, ver) ==
  SelectSeq(filesOf(m),
            LAMBDA f : /\ isSupported(supportedVersions(f), ver, includePrerelease(m))
                       /\ isSupported(supportedVersions(m), ver, includePrerelease(m)))

\* lines 445-452: files.filter(f => isSupported(f.supportedVersions, ...))
supportedFileInstrumentations(m, ver) ==
  SelectSeq(filesOf(m),
            LAMBDA f : isSupported(supportedVersions(f), ver, includePrerelease(m)))

FileOutcomes == {"requireFails", "patched", "patchThrows"}

\* lines 454-485: each supported file is re-required (a failure skips the
\* file) and then patched inside a try block
RECURSIVE fileEvents(_, _, _)
fileEvents(sfis, inst, fo) ==
  IF sfis = <<>> THEN <<>>
  ELSE LET sfi == Head(sfis)
       IN  (IF fo[sfi] = "requireFails"
              THEN <<Event("require", inst, sfi, "repatch", FALSE)>>
              ELSE <<Event("require", inst, sfi, "repatch", TRUE),
                     Event("patch", inst, sfi, "repatch", fo[sfi] = "patched")>>)
           \o fileEvents(Tail(sfis), inst, fo)

\* a pass that calls module.patch a second time for a patched module
moduleEventsPatchTwice(m, inst, requireOk, pkg, ex, ver, patchThrows) ==
  <<Event("resolve", inst, m, "repatch", TRUE),
    Event("require", inst, m, "repatch", requireOk),
    Event("package.json", inst, m, "repatch", pkg # "fail")>>
  \o (IF shouldPatchModule(m, ex, ver)
        THEN <<Event("patch", inst, m, "repatch", ~patchThrows),
               Event("patch", inst, m, "repatch", ~patchThrows)>>
        ELSE <<>>)

\* lines 394-443: the events of the module itself
moduleEvents(m, inst, requireOk, pkg, ex, ver, patchThrows) ==
  <<Event("resolve", inst, m, "repatch", TRUE),
    Event("require", inst, m, "repatch", requireOk),
    Event("package.json", inst, m, "repatch", pkg # "fail")>>
  \o (IF shouldPatchModule(m, ex, ver)
        THEN <<Event("patch", inst, m, "repatch", ~patchThrows)>>
        ELSE <<>>)

Range(seq) == {seq[k] : k \in 1..Len(seq)}

\* lines 392-487: the body of `for (const module of modules)`
RepatchModule ==
  /\ pc = "repatch"
  /\ cursor[2] >= 1
  /\ LET i    == cursor[1]
         j    == cursor[2]
         inst == allInstrumentations[i]
         m    == modulesOf(inst)[j]
     IN  /\ \E resolves \in BOOLEAN :
              IF getModuleId(resolves) = Null
                THEN /\ log' = Append(log, Event("resolve", inst, m, "repatch", FALSE))
                     /\ UNCHANGED <<moduleExports, moduleVersion, fileExports>>
                ELSE \E requireOk \in BOOLEAN, pkg \in {"fail"} \cup PkgVersions,
                        patchThrows \in BOOLEAN,
                        fo \in [Range(filesOf(m)) -> FileOutcomes] :
                       LET ex   == exportsAfterRequire(m, requireOk)
                           ver  == versionAfterPackageJson(m, pkg)
                           sfis == supportedFileInstrumentations(m, ver)
                       IN  /\ moduleExports' = [moduleExports EXCEPT ![m] = ex]
                           /\ moduleVersion' = [moduleVersion EXCEPT ![m] = ver]
                           /\ fileExports' =
                                [f \in FileNames |->
                                   IF f \in Range(sfis) /\ fo[f] # "requireFails"
                                     THEN "exports" ELSE fileExports[f]]
                           /\ log' = log
                                \o moduleEvents(m, inst, requireOk, pkg, ex, ver, patchThrows)
                                \o fileEvents(sfis, inst, fo)
         /\ cursor' = afterModule(i, j)
         /\ pc' = pcAt(cursor')
  /\ UNCHANGED <<config, contextManager, sdk, enabled, handlers, otelEnvs, caller>>
  /\ UNCHANGED <<signalVars, pureVars, contextVars>>

\* lines 494-507: the termination signal listeners are registered when
\* stopOnTerminationSignals is set; initSDK then returns
FinishInitSDK ==
  /\ pc = "repatched"
  /\ handlers' = config.stopOnTerminationSignals
  /\ pc' = "done"
  /\ UNCHANGED <<config, contextManager, sdk, enabled, moduleExports, moduleVersion,
                 fileExports, cursor, log, otelEnvs, caller>>
  /\ UNCHANGED <<signalVars, pureVars, contextVars>>

-----------------------------------------------------------------------------
(* Variables a specification does not use rest at these values.             *)

InitSignalVars == calls = <<>> /\ exited = FALSE

NoArgs == [supportedVersions |-> <<>>, version |-> Undefined,
           includePrerelease |-> Undefined]

InitPureVars == isArgs = NoArgs /\ isResult = "pending"

\* the task runs outside every context: getMutableContext() gives nothing
NoContext == 0

Contexts == 1..NumContexts

Keys == {"k1", "k2"}

Values == 1..MaxValue

EmptyMap == [k \in {} |-> 1]

InitContextVars ==
  /\ current = NoContext
  /\ mutableContext = [c \in Contexts |-> [hasMap |-> FALSE, map |-> EmptyMap]]
  /\ lastWrite = [c \in Contexts |-> EmptyMap]
  /\ lastCall = "none"

-----------------------------------------------------------------------------
(* Spec: one call of initSDK, from the call to its return or its throw.     *)

Init == InitSdkVars /\ InitSignalVars /\ InitPureVars /\ InitContextVars

Next ==
  \/ \E c \in Configs : initSDK(c)
  \/ SdkStart
  \/ RepatchInstrumentation
  \/ RepatchModule
  \/ FinishInitSDK

Spec == Init /\ [][Next]_vars

\* SpecInit: the same call when the application enters through init()
NextInit ==
  \/ \E c \in CallerConfigs : init(c)
  \/ SdkStart
  \/ RepatchInstrumentation
  \/ RepatchModule
  \/ FinishInitSDK

SpecInit == Init /\ [][NextInit]_vars

-----------------------------------------------------------------------------
(* Properties of the repatch pass.                                          *)

Targets == ModuleNames \cup FileNames

\* the pass has reached module m (its getModuleId call is in the log)
Processed(m) == \E i \in Events("resolve", "repatch") : log[i].target = m

\* getModuleId(m) returned an id in the pass
Resolved(m) == \E i \in Events("resolve", "repatch") : log[i].target = m /\ log[i].ok

\* the pass tried to re-require t, and the re-require succeeded
Attempted(t) == \E i \in Events("require", "repatch") : log[i].target = t

RequireOk(t) == \E i \in Events("require", "repatch") : log[i].target = t /\ log[i].ok

Compatible(t, m) == isSupported(supportedVersions(t), moduleVersion[m], includePrerelease(m))

\* C1 as stated: across the start-up enable and the repatch pass the patch
\* function of a target is invoked at most once for the exports object the
\* module loader returns for it: a target patched at start-up is not patched
\* again by the pass.
C1_PatchedOnceAcrossStartupAndRepatch ==
  \A t \in Targets : PatchCount(t, "startup") + PatchCount(t, "repatch") <= 1

\* C1 as amended: start-up invokes a target's patch function at most once and
\* the repatch pass invokes it at most once; a target patched at start-up is
\* patched a second time by the pass, for the same exports object, and that
\* second invocation comes after disable() of its instrumentation returned.
C1_PatchedOncePerPhaseAfterDisable ==
  \A t \in Targets :
    /\ PatchCount(t, "startup") <= 1
    /\ PatchCount(t, "repatch") <= 1
    /\ \A p \in Events("patch", "repatch") :
         log[p].target = t /\ PatchCount(t, "startup") = 1 =>
           \E d \in Events("disable", "repatch") :
             d < p /\ log[d].inst = log[p].inst /\ log[d].ok

C1_Witness ==
  /\ PatchCount("a1", "startup") = 1
  /\ PatchCount("a1", "repatch") = 1
  /\ pc = "done"

\* C2 as stated: when a module-level or file-level patch function has thrown
\* in the repatch pass, initSDK is not left by an exception, and once the
\* pass is over every module of every instrumentation with a module list has
\* been reached.
C2_PatchThrowNeverAbortsInitSDK ==
  (\E p \in Events("patch", "repatch") : ~log[p].ok) =>
    /\ pc # "aborted"
    /\ pc \in {"repatched", "done"} => \A m \in ModuleNames : Processed(m)

\* C3 as stated: when disable() of an instrumentation has thrown in the
\* repatch pass, the exception is caught: initSDK is not left by it.
C3_DisableThrowIsCaught ==
  (\E d \in Events("disable", "repatch") : ~log[d].ok) => pc # "aborted"

\* C4 as stated: every patch invocation of the repatch pass comes after the
\* disable() of every enabled instrumentation.
C4_AllDisabledBeforeAnyPatch ==
  \A p \in Events("patch", "repatch") :
    \A k \in 1..Len(allInstrumentations) :
      \E d \in Events("disable", "repatch") :
        d < p /\ log[d].inst = allInstrumentations[k]

\* C4 as amended: every patch invocation of the repatch pass comes after
\* disable() of the instrumentation that owns the patched module or file has
\* been called and has returned; the instrumentations later in the list are
\* disabled only when the pass reaches them.
C4_OwnInstrumentationDisabledBeforePatch ==
  \A p \in Events("patch", "repatch") :
    \E d \in Events("disable", "repatch") :
      d < p /\ log[d].inst = log[p].inst /\ log[d].ok

C4_Witness ==
  /\ \E p \in Events("patch", "repatch") : log[p].inst = "A"
  /\ \E p \in Events("patch", "repatch") : log[p].inst = "B"

\* C5 as stated: when reading package.json of a resolvable module failed in
\* the repatch pass, the module's version is absent afterwards, and the
\* module and its files are patched only if they declare the range '*'.
C5_VersionAbsentAfterPackageJsonFailure ==
  \A i \in Events("package.json", "repatch") :
    ~log[i].ok =>
      /\ moduleVersion[log[i].target] = Undefined
      /\ \A p \in Events("patch", "repatch") :
           (log[p].target = log[i].target \/
            (log[p].target \in FileNames /\ ModuleOf(log[p].target) = log[i].target))
             => includes(supportedVersions(log[p].target), "*")

\* C6 as stated: for a module-level target the pass has reached, the pass
\* invokes patch zero times when the module does not resolve, exactly once
\* when it resolves and its version satisfies one of its ranges, and zero
\* times when it resolves and its version satisfies none.
C6_PatchCountByResolutionAndVersion ==
  \A m \in ModuleNames :
    Processed(m) /\ hasPatch(m) =>
      PatchCount(m, "repatch") =
        (IF Resolved(m) /\ Compatible(m, m) THEN 1 ELSE 0)

\* C6 as amended: for a module-level target the pass has reached, the pass
\* invokes patch exactly once when the module resolves, an exports object is
\* bound to it (re-required in the pass or left by an earlier resolution)
\* and its recorded version satisfies one of its ranges; zero times in every
\* other case, and zero times for a target the pass never reaches.
C6_PatchCountByResolutionExportsAndVersion ==
  \A m \in ModuleNames :
    hasPatch(m) =>
      PatchCount(m, "repatch") =
        (IF Resolved(m) /\ Compatible(m, m) /\ moduleExports[m] # Undefined
           THEN 1 ELSE 0)

C6_Witness ==
  /\ Resolved("a1") /\ PatchCount("a1", "repatch") = 1
  /\ Processed("a2") /\ ~Resolved("a2") /\ PatchCount("a2", "repatch") = 0
  /\ pc = "done"

\* C9 as stated: for a module the pass has resolved, every file whose ranges
\* the version satisfies has its patch applied, whatever the module-level
\* outcome, and the module-level patch is applied whenever the module's
\* ranges are satisfied, whatever the files' outcome.
C9_FileAndModuleGatedByRangesAlone ==
  \A m \in ModuleNames :
    Resolved(m) =>
      /\ \A f \in Range(filesOf(m)) :
           Compatible(f, m) => PatchCount(f, "repatch") = 1
      /\ hasPatch(m) /\ Compatible(m, m) => PatchCount(m, "repatch") = 1

\* C9 as amended: for a module the pass has resolved, a file is re-required
\* exactly when its own ranges are satisfied by the recorded version and its
\* patch is applied exactly when that re-require succeeds, whatever the
\* module-level outcome; the module-level patch is applied exactly when the
\* module's ranges are satisfied, it has a patch function and an exports
\* object is bound, whatever the files' outcome.
C9_FileAndModuleGatedIndependently ==
  \A m \in ModuleNames :
    Resolved(m) =>
      /\ \A f \in Range(filesOf(m)) :
           /\ Attempted(f) <=> Compatible(f, m)
           /\ PatchCount(f, "repatch") = (IF RequireOk(f) THEN 1 ELSE 0)
      /\ PatchCount(m, "repatch") =
           (IF hasPatch(m) /\ Compatible(m, m) /\ moduleExports[m] # Undefined
              THEN 1 ELSE 0)

C9_Witness ==
  /\ Resolved("a1")
  /\ PatchCount("a1/f", "repatch") = 1 /\ PatchCount("a1", "repatch") = 0
  /\ Resolved("a2")
  /\ PatchCount("a2", "repatch") = 1
  /\ PatchCount("b1/f", "repatch") = 1
  /\ pc = "done"

-----------------------------------------------------------------------------
(* The state initSDK leaves behind when it returns, with programmaticImports *)
(* off and no module loaded during start-up.                                 *)

AfterInitSDK(stop, als) ==
  /\ pc = "done"
  /\ config = [apiKey |-> TRUE, programmaticImports |-> FALSE,
               stopOnTerminationSignals |-> stop, asyncLocalStorage |-> als]
  /\ contextManager = (IF als THEN "manager" ELSE Undefined)
  /\ sdk = "started"
  /\ enabled = [i \in {"A", "B", "C"} |-> TRUE]
  /\ moduleExports = [m \in ModuleNames |-> Undefined]
  /\ moduleVersion = [m \in ModuleNames |-> Undefined]
  /\ fileExports = [f \in FileNames |-> Undefined]
  /\ cursor = <<0, 0>>
  /\ log = <<>>
  /\ handlers = stop
  /\ otelEnvs = TRUE
  /\ caller = NoCaller

\* the state initSDK leaves when it is called without an API key
AfterSkippedInitSDK ==
  /\ pc = "skipped"
  /\ config = NoConfig
  /\ contextManager = Undefined
  /\ sdk = Undefined
  /\ enabled = [i \in {"A", "B", "C"} |-> FALSE]
  /\ moduleExports = [m \in ModuleNames |-> Undefined]
  /\ moduleVersion = [m \in ModuleNames |-> Undefined]
  /\ fileExports = [f \in FileNames |-> Undefined]
  /\ cursor = <<0, 0>>
  /\ log = <<>>
  /\ handlers = FALSE
  /\ otelEnvs = FALSE
  /\ caller = NoCaller

-----------------------------------------------------------------------------
(* SpecPure: isSupported applied to every argument triple within the bounds. *)

RangeArrays == UNION {[1..n -> Ranges] : n \in 0..MaxRanges}

InitPure ==
  /\ InitSdkVars /\ InitSignalVars /\ InitContextVars
  /\ isArgs \in [supportedVersions : RangeArrays,
                 version : Versions \cup {Undefined},
                 includePrerelease : {"true", "false", Undefined}]
  /\ isResult = "pending"

IsSupportedCall ==
  /\ isResult = "pending"
  /\ isResult' = IF isSupported(isArgs.supportedVersions, isArgs.version,
                                isArgs.includePrerelease)
                   THEN "true" ELSE "false"
  /\ UNCHANGED <<isArgs, sdkVars, signalVars, contextVars>>

NextPure == IsSupportedCall

SpecPure == InitPure /\ [][NextPure]_vars

\* C7: isSupported returns true iff either the version is undefined and the
\* literal '*' is one of the ranges, or the version is defined and satisfies
\* at least one of the ranges under includePrerelease; the four cases the
\* specification lists come out as it says.
C7_IsSupportedIff ==
  isResult # "pending" =>
    LET rs == isArgs.supportedVersions
        v  == isArgs.version
        ip == isArgs.includePrerelease
    IN  /\ (isResult = "true") <=>
             \/ v = Undefined /\ \E i \in 1..Len(rs) : rs[i] = "*"
             \/ v # Undefined /\ \E i \in 1..Len(rs) : satisfies(v, rs[i], ip)
        /\ rs = <<"^2.0.0">> /\ v = "2.3.1" => isResult = "true"
        /\ rs = <<"^2.0.0">> /\ v = "1.9.0" => isResult = "false"
        /\ rs = <<"*">> /\ v = Undefined => isResult = "true"
        /\ rs = <<"^2.0.0">> /\ v = Undefined => isResult = "false"

C7_Witness ==
  /\ isResult = "false"
  /\ isArgs.version = Undefined
  /\ isArgs.supportedVersions = <<"x", "^2.0.0">>

-----------------------------------------------------------------------------
(* SpecSignals: termination signals and shutdown() after initSDK, lines      *)
(* 494-507 and 605-622.  A call of _shutdown() is a record: the promise of   *)
(* sdk.shutdown(), the promise its then() gives, and what the callbacks did. *)

Signals == {"SIGTERM", "SIGINT"}

\* lines 605-617: sdk?.shutdown()?.then(succeed, fail) ?? Promise.resolve()
_shutdown(origin) ==
  IF sdk = Undefined
    THEN [origin |-> origin, sdkPromise |-> "none", promise |-> "fulfilled",
          ui |-> "none", exitCalled |-> FALSE]
    ELSE [origin |-> origin, sdkPromise |-> "pending", promise |-> "pending",
          ui |-> "none", exitCalled |-> FALSE]

\* lines 494-506: the listener of SIGTERM and SIGINT
handleTerminationSignal(signal) ==
  /\ handlers
  /\ ~exited
  /\ Len(calls) < MaxSignals
  /\ calls' = Append(calls, _shutdown(signal))
  /\ UNCHANGED <<exited, sdkVars, pureVars, contextVars>>

\* lines 619-622: the exported shutdown()
shutdown ==
  /\ ~exited
  /\ Len(calls) < MaxSignals
  /\ calls' = Append(calls, _shutdown("shutdown"))
  /\ UNCHANGED <<exited, sdkVars, pureVars, contextVars>>

\* line 612: the promise sdk.shutdown() returned fulfils or rejects
SdkShutdownSettles ==
  /\ ~exited
  /\ \E k \in 1..Len(calls), outcome \in {"fulfilled", "rejected"} :
       /\ calls[k].sdkPromise = "pending"
       /\ calls' = [calls EXCEPT ![k].sdkPromise = outcome]
  /\ UNCHANGED <<exited, sdkVars, pureVars, contextVars>>

\* then() given the success callback alone: a rejection passes through
thenWithoutRejectionCallback(sdkPromise) ==
  IF sdkPromise = "fulfilled"
    THEN [promise |-> "fulfilled", ui |-> "succeed"]
    ELSE [promise |-> "rejected", ui |-> "none"]

\* lines 612-615: then(onFulfilled, onRejected); the callback that matches
\* the outcome of sdk.shutdown() reports it through ui and returns normally,
\* so the promise then() returned fulfils in both cases
then(sdkPromise) ==
  [promise |-> "fulfilled",
   ui |-> IF sdkPromise = "fulfilled" THEN "succeed" ELSE "fail"]

\* lines 613-614: the callbacks of then()
ThenCallback ==
  /\ ~exited
  /\ \E k \in 1..Len(calls) :
       /\ calls[k].sdkPromise \in {"fulfilled", "rejected"}
       /\ calls[k].promise = "pending"
       /\ calls' = [calls EXCEPT ![k].promise = then(calls[k].sdkPromise).promise,
                                 ![k].ui = then(calls[k].sdkPromise).ui]
  /\ UNCHANGED <<exited, sdkVars, pureVars, contextVars>>

\* process.exit() placed where only a reported success reaches it
finallyRunsAfterSuccessOnly(call) == call.promise = "fulfilled" /\ call.ui = "succeed"

\* line 496: the callback of finally() runs once the promise of _shutdown()
\* has settled, whichever way
finallyRuns(call) == call.promise # "pending"

\* line 496: .finally(() => process.exit())
FinallyCallback ==
  /\ ~exited
  /\ \E k \in 1..Len(calls) :
       /\ calls[k].origin \in Signals
       /\ finallyRuns(calls[k])
       /\ ~calls[k].exitCalled
       /\ calls' = [calls EXCEPT ![k].exitCalled = TRUE]
       /\ exited' = TRUE
  /\ UNCHANGED <<sdkVars, pureVars, contextVars>>

InitSignals ==
  /\ \/ InitSdkVars
     \/ \E stop \in BOOLEAN : AfterInitSDK(stop, TRUE)
  /\ InitSignalVars /\ InitPureVars /\ InitContextVars

NextSignals ==
  \/ \E signal \in Signals : handleTerminationSignal(signal)
  \/ shutdown
  \/ SdkShutdownSettles
  \/ ThenCallback
  \/ FinallyCallback

SpecSignals == InitSignals /\ [][NextSignals]_vars

\* the reactions of a settled promise are jobs of the microtask queue, which
\* the event loop runs as long as the process has not exited; when
\* sdk.shutdown() settles is up to the SDK
SpecSignalsFair ==
  /\ InitSignals
  /\ [][NextSignals]_vars
  /\ WF_vars(ThenCallback)
  /\ WF_vars(FinallyCallback)

\* C8 as stated: with stopOnTerminationSignals on, process.exit is called
\* only when no shutdown started by a signal handler is still pending.
C8_ExitOnlyAfterSignalShutdownsSettle ==
  exited =>
    \A k \in 1..Len(calls) :
      calls[k].origin \in Signals => calls[k].promise # "pending"

-----------------------------------------------------------------------------
(* SpecContext: setTraceAttributes, lines 624-639, called from tasks that    *)
(* run inside the contexts the context manager activates.                    *)

\* Object.entries(attributes): the own keys of an object are distinct
AttributeEntries ==
  {es \in UNION {[1..n -> Keys \X Values] : n \in 0..Cardinality(Keys)} :
     \A a, b \in 1..Len(es) : a # b => es[a][1] # es[b][1]}

\* Map.prototype.set
MapSet(map, k, v) ==
  [x \in DOMAIN map \cup {k} |-> IF x = k THEN v ELSE map[x]]

\* lines 634-636: for (const [k, v] of Object.entries(attributes)) map.set(k, v)
RECURSIVE setEntries(_, _)
setEntries(map, entries) ==
  IF entries = <<>> THEN map
  ELSE setEntries(MapSet(map, Head(entries)[1], Head(entries)[2]), Tail(entries))

\* a version that starts from a new Map on every call
traceAttributesAfterReplacing(ctx, attributes) ==
  [hasMap |-> TRUE, map |-> setEntries(EmptyMap, attributes)]

\* lines 631-636: the traceAttributes of the mutable context after the call
traceAttributesAfter(ctx, attributes) ==
  [hasMap |-> TRUE,
   map |-> setEntries(IF ctx.hasMap THEN ctx.map ELSE EmptyMap, attributes)]

\* line 629: contextManager.getMutableContext() gives the mutable context of
\* the active context, or nothing outside every context
getMutableContext == IF current = NoContext THEN Null ELSE "context"

\* the keys an argument supplies, and the value it supplies for a key
KeysOf(entries) == {entries[a][1] : a \in 1..Len(entries)}

ValueOf(entries, k) == (CHOOSE a \in 1..Len(entries) : entries[a][1] = k)

\* a guard that asks the manager without testing that there is one
hasMutableContextWithoutManagerTest == getMutableContext # Null

\* lines 625-630: the two tests setTraceAttributes makes before it writes
hasMutableContext == contextManager # Undefined /\ getMutableContext # Null

setTraceAttributes(attributes) ==
  /\ IF hasMutableContext
       THEN /\ lastCall' = "wrote"
            /\ mutableContext' =
                 [mutableContext EXCEPT
                    ![current] = traceAttributesAfter(mutableContext[current], attributes)]
            /\ lastWrite' =
                 [lastWrite EXCEPT
                    ![current] =
                       [k \in DOMAIN lastWrite[current] \cup KeysOf(attributes) |->
                          IF k \in KeysOf(attributes)
                            THEN attributes[ValueOf(attributes, k)][2]
                            ELSE lastWrite[current][k]]]
       ELSE lastCall' = "noop" /\ UNCHANGED <<mutableContext, lastWrite>>
  /\ UNCHANGED <<current, sdkVars, signalVars, pureVars>>

\* the context manager makes a context active for the task that runs next
\* (or none: code outside every context)
Activate(c) ==
  /\ current # c
  /\ current' = c
  /\ UNCHANGED <<mutableContext, lastWrite, lastCall, sdkVars, signalVars, pureVars>>

InitContext ==
  /\ \/ InitSdkVars
     \/ AfterSkippedInitSDK
     \/ \E als \in BOOLEAN : AfterInitSDK(TRUE, als)
  /\ InitSignalVars /\ InitPureVars /\ InitContextVars

NextContext ==
  \/ \E attributes \in AttributeEntries : setTraceAttributes(attributes)
  \/ \E c \in Contexts \cup {NoContext} : Activate(c)

SpecContext == InitContext /\ [][NextContext]_vars

\* C10: after any sequence of setTraceAttributes calls, in every context each
\* key holds the value of the last call made in that context that supplied
\* the key, and a key no call supplied is absent (a call leaves the keys it
\* does not supply as they were).
C10_LastWriteWinsPerKey ==
  \A c \in Contexts :
    /\ mutableContext[c].map = lastWrite[c]
    /\ mutableContext[c].hasMap \/ lastWrite[c] = EmptyMap

C10_Witness ==
  \E c \in Contexts :
    /\ mutableContext[c].hasMap
    /\ DOMAIN mutableContext[c].map = Keys
    /\ mutableContext[c].map["k1"] # mutableContext[c].map["k2"]
    /\ \E d \in Contexts : d # c /\ DOMAIN mutableContext[d].map = {"k1"}

\* C11: a setTraceAttributes call made while no mutable context is available
\* (no context manager was created: initSDK not called, skipped for a missing
\* API key, or run on a runtime without AsyncLocalStorage; or the manager
\* returns no mutable context) changes no state: the trace attributes of
\* every context, the SDK state and the shutdown state stay as they were, and
\* the call is recorded as a no-op.
C11_NoOpWithoutMutableContext ==
  [][(contextManager = Undefined \/ getMutableContext = Null)
       => /\ UNCHANGED <<mutableContext, lastWrite, sdkVars, signalVars>>
          /\ lastCall' \in {lastCall, "noop"}]_vars

C11_Witness ==
  /\ pc = "skipped"
  /\ contextManager = Undefined
  /\ current # NoContext
  /\ lastCall = "noop"

\* C12: init() hands initSDK programmaticImports = true unless the caller's
\* config carries the property itself; the repatch pass makes calls only when
\* programmaticImports is requested and only once sdk.start() has returned;
\* it disables each instrumentation and reaches each module at most once;
\* and when programmaticImports is not requested, initSDK returns with no
\* instrumentation disabled and no call of the pass made.
C12_RepatchOnceOnlyWhenRequested ==
  /\ pc # "idle" =>
       config.programmaticImports = (caller.programmaticImports \in {"absent", "true"})
  /\ (pc = "repatch" \/ \E i \in 1..Len(log) : log[i].phase = "repatch") =>
       config.programmaticImports /\ sdk = "started"
  /\ \A inst \in {"A", "B", "C"} :
       Cardinality({d \in Events("disable", "repatch") : log[d].inst = inst}) <= 1
  /\ \A m \in ModuleNames :
       Cardinality({i \in Events("resolve", "repatch") : log[i].target = m}) <= 1
  /\ (pc \in {"repatched", "done"} /\ ~config.programmaticImports) =>
       \A inst \in {"A", "B", "C"} : enabled[inst]

C12_Witness ==
  /\ pc = "done"
  /\ caller.programmaticImports = "absent"
  /\ \A inst \in {"A", "B"} :
       Cardinality({d \in Events("disable", "repatch") : log[d].inst = inst}) = 1
  /\ \A m \in ModuleNames : Processed(m)

\* C13: whenever the repatch pass invokes the patch function of a module, the
\* re-require of that module succeeded in the same pass: after a failed
\* re-require no patch function is invoked on exports an earlier resolution
\* left in module.moduleExports.
C13_PatchOnlyOnReRequiredExports ==
  \A p \in Events("patch", "repatch") :
    log[p].target \in ModuleNames => RequireOk(log[p].target)

\* the calls of disable() the pass has made on an instrumentation
DisableCount(inst) ==
  Cardinality({d \in Events("disable", "repatch") : log[d].inst = inst})

\* the pass has left the disable() call of the instrumentation at index k
\* behind it
PassedBy(k) ==
  /\ config.programmaticImports
  /\ \/ pc \in {"repatched", "done"}
     \/ pc = "repatch" /\ (cursor[1] > k \/ (cursor[1] = k /\ cursor[2] >= 1))

C15_LeftDisabledAfterRepatch ==
  /\ \A inst \in {"A", "B"} : DisableCount(inst) >= 1 => ~enabled[inst]
  /\ (pc = "done" /\ config.programmaticImports) => ~enabled["A"] /\ ~enabled["B"]

C15_Witness ==
  /\ pc = "done"
  /\ config.programmaticImports
  /\ ~enabled["A"] /\ ~enabled["B"]
  /\ \E p \in Events("patch", "repatch") : log[p].inst = "A" /\ log[p].ok
  /\ \E p \in Events("patch", "repatch") : log[p].inst = "B" /\ log[p].ok

\* C16: the promise shutdown() returned never rejects; it is fulfilled from
\* the start when no SDK was created; when sdk.shutdown() rejected and the
\* promise has settled, it is fulfilled and the failure was reported; and
\* once sdk.shutdown() has settled the promise fulfils (unless the process
\* exits first).
C16_ShutdownPromiseAlwaysFulfils ==
  /\ [](\A k \in 1..Len(calls) :
          calls[k].origin = "shutdown" =>
            /\ calls[k].promise # "rejected"
            /\ calls[k].sdkPromise = "none" => calls[k].promise = "fulfilled"
            /\ (calls[k].sdkPromise = "rejected" /\ calls[k].promise # "pending") =>
                 calls[k].promise = "fulfilled" /\ calls[k].ui = "fail")
  /\ \A k \in 1..MaxSignals :
       (/\ Len(calls) >= k
        /\ calls[k].origin = "shutdown"
        /\ calls[k].sdkPromise \in {"fulfilled", "rejected"})
         ~> (exited \/ (Len(calls) >= k /\ calls[k].promise = "fulfilled"))

C16_Witness ==
  /\ Len(calls) = 2
  /\ calls[1].origin = "shutdown" /\ calls[2].origin = "shutdown"
  /\ calls[1].sdkPromise = "rejected" /\ calls[1].promise = "fulfilled"
  /\ calls[1].ui = "fail"
  /\ calls[2].sdkPromise = "fulfilled" /\ calls[2].promise = "fulfilled"
  /\ calls[2].ui = "succeed"

\* C17: with the listeners registered, once the sdk.shutdown() promise of a
\* shutdown started by a termination signal has settled, fulfilled or
\* rejected, process.exit() is eventually called.
C17_SignalLeadsToExit ==
  \A k \in 1..MaxSignals :
    (/\ Len(calls) >= k
     /\ calls[k].origin \in Signals
     /\ calls[k].sdkPromise \in {"fulfilled", "rejected"})
      ~> exited

C17_Witness ==
  /\ exited
  /\ Len(calls) = 1
  /\ calls[1].origin \in Signals
  /\ calls[1].sdkPromise = "rejected"
  /\ calls[1].ui = "fail"
  /\ calls[1].exitCalled

\* C18: an initSDK call that finds neither an API key nor
\* OTEL_EXPORTER_OTLP_HEADERS returns at once and leaves the agent as it was:
\* no OTEL_* variable written, no context manager and no SDK created or
\* started, no instrumentation enabled, disabled or patched, no signal
\* listener registered; and nothing happens after that return.
C18_SkippedInitSDKChangesNothing ==
  [][/\ (pc = "idle" /\ pc' # "idle" /\ ~config'.apiKey) =>
          /\ pc' = "skipped"
          /\ UNCHANGED <<otelEnvs, contextManager, sdk, enabled, moduleExports,
                         moduleVersion, fileExports, cursor, log, handlers,
                         signalVars, contextVars>>
     /\ pc = "skipped" => UNCHANGED vars]_vars

C18_Witness ==
  /\ pc = "skipped"
  /\ ~config.apiKey
  /\ config.programmaticImports /\ config.stopOnTerminationSignals
  /\ config.asyncLocalStorage
  /\ ~otelEnvs /\ ~handlers
  /\ sdk = Undefined /\ contextManager = Undefined
  /\ log = <<>>

====
